---- MODULE Spec2Model ----
(***************************************************************************)
(* Model of the py-commons helpers: the sentinel classification and        *)
(* fallback resolution functions of core_py/utils.py, the sentinels of     *)
(* core_py/base.py and the predicate search of collections/utils.py.       *)
(*                                                                         *)
(* A Python object is a record [type, val, oid]: its exact runtime type,   *)
(* an integer payload (the number, the truth value, the length) and an     *)
(* object id that tells apart two equal but distinct containers.  Two      *)
(* records are equal exactly when the Python objects are identical (is).   *)
(***************************************************************************)
EXTENDS Integers, Sequences, FiniteSets

VARIABLES op, args, out

vars == <<op, args, out>>

(* ---------------------------- bounds ----------------------------------- *)

\* longest sequence handed to get_first_true / get_last_true
MaxLen == 3
\* the ids of a sequence are the integers 1..MaxId
MaxId == 3
\* number of distinct (non identical) empty lists
NumLists == 2

(* ---------------------------- objects ---------------------------------- *)

Obj(t, v, o) == [type |-> t, val |-> v, oid |-> o]

None == Obj("NoneType", 0, 0)
Ellipsis == Obj("ellipsis", 0, 0)
IntObj(n) == Obj("int", n, 0)
BoolObj(b) == Obj("bool", IF b THEN 1 ELSE 0, 0)
StrObj(n) == Obj("str", n, 0)
EmptyList(o) == Obj("list", 0, o)
EmptyTuple == Obj("tuple", 0, 0)

\* the sentinel class of core_py/_base.py: a tagged type with one instance
\* per process, so that every construction gives the same object
_MISSING == Obj("_MISSING", 0, 0)

\* base.py: MISSING_TYPE: TypeAlias = _MISSING
MISSING_TYPE == _MISSING

\* base.py: MISSING = MISSING_TYPE()
MISSING == MISSING_TYPE

\* base.py: UNSET = MISSING
UNSET == MISSING

\* the objects callers pass around
Objects ==
    {None, Ellipsis, MISSING, UNSET, IntObj(0), IntObj(2), BoolObj(FALSE), BoolObj(TRUE),
     StrObj(0), StrObj(1), EmptyTuple} \cup {EmptyList(o) : o \in 1..NumLists}

\* type(x)
TypeOf(x) == x.type

\* the truth value Python's `if` gives an object
Truthy(x) ==
    CASE x.type = "NoneType" -> FALSE
      [] x.type \in {"int", "bool", "str", "list", "tuple", "SizedRootDirOp"}
           -> x.val # 0
      [] OTHER -> TRUE

(* ---------------------------- outcomes --------------------------------- *)

\* the place of a value when a call raised
NoValue == Obj("<no value>", 0, 0)

Return(v) == [kind |-> "return", exc |-> "", value |-> v]
Raise(e) == [kind |-> "raise", exc |-> e, value |-> NoValue]

(* --------------------- core_py/utils.py -------------------------------- *)

\* the check that takes None for "not supplied" as well
is_missing_OrNone(obj) == BoolObj(obj = MISSING \/ obj = None)

\* obj is MISSING
is_missing(obj) == BoolObj(obj = MISSING)

\* obj is UNSET
is_unset(obj) == BoolObj(obj = UNSET)

\* obj is ...
is_ellipses(obj) == BoolObj(obj = Ellipsis)

\* isinstance(obj, cls): bool is a subclass of int
IsInstance(obj, cls) ==
    \/ TypeOf(obj) = cls
    \/ (TypeOf(obj) = "bool" /\ cls = "int")

\* the resolution without the type check
_alt_if_predicate_true_NoTypeCheck(obj, alt, predicate) ==
    Return(IF Truthy(predicate[obj]) THEN alt ELSE obj)

\* the resolution that checks the types before it asks the predicate
_alt_if_predicate_true_TypeFirst(obj, alt, predicate) ==
    IF TypeOf(obj) # TypeOf(alt)
    THEN Raise("TypeError")
    ELSE Return(IF Truthy(predicate[obj]) THEN alt ELSE obj)

\* the resolution that keeps obj only when it is truthy (obj or alt)
_alt_if_predicate_true_Falsy(obj, alt, predicate) ==
    IF Truthy(predicate[obj])
    THEN Return(alt)
    ELSE IF TypeOf(obj) # TypeOf(alt)
         THEN Raise("TypeError")
         ELSE Return(IF Truthy(obj) THEN obj ELSE alt)

\* the resolution that accepts a subtype of alt's type (isinstance)
_alt_if_predicate_true_IsInstance(obj, alt, predicate) ==
    IF Truthy(predicate[obj])
    THEN Return(alt)
    ELSE IF ~IsInstance(obj, TypeOf(alt))
         THEN Raise("TypeError")
         ELSE Return(IF Truthy(is_missing(obj)) THEN alt ELSE obj)

\* alt when the predicate holds of obj; else a TypeError when the exact
\* types differ; else obj (alt again should obj be MISSING)
\* (a callable is a function value: predicate[obj] is the call predicate(obj))
_alt_if_predicate_true(obj, alt, predicate) ==
    IF Truthy(predicate[obj])
    THEN Return(alt)
    ELSE IF TypeOf(obj) # TypeOf(alt)
         THEN Raise("TypeError")
         ELSE Return(IF Truthy(is_missing(obj)) THEN alt ELSE obj)

alt_if_missing(obj, alt) ==
    _alt_if_predicate_true(obj, alt, [x \in Objects |-> is_missing(x)])

alt_if_unset(obj, alt) ==
    _alt_if_predicate_true(obj, alt, [x \in Objects |-> is_unset(x)])

alt_if_ellipses(obj, alt) ==
    _alt_if_predicate_true(obj, alt, [x \in Objects |-> is_ellipses(x)])

\* value or default_val: the fallback on any falsy value
fallback_on_none_Or(value, default_val) ==
    Return(IF Truthy(value) THEN value ELSE default_val)

\* default_val if value is None else value
fallback_on_none(value, default_val) ==
    Return(IF value = None THEN default_val ELSE value)

\* the strict fallback that asserts only when the default is needed
fallback_on_none_strict_LateAssert(value, default_val) ==
    IF value = None /\ default_val = None
    THEN Raise("AssertionError")
    ELSE fallback_on_none(value, default_val)

\* assert default_val is not None, then fallback_on_none
fallback_on_none_strict(value, default_val) ==
    IF default_val = None
    THEN Raise("AssertionError")
    ELSE fallback_on_none(value, default_val)

(* --------------------- collections/utils.py ---------------------------- *)

\* the ids a sequence may hold
Ids == {IntObj(n) : n \in 1..MaxId}

\* what a predicate does with one id: it returns an object or it raises
PredRaises == Obj("<raises>", 0, 0)
PredResults == {BoolObj(TRUE), BoolObj(FALSE), None, PredRaises}

\* a predicate is callable or not; a callable one is a table over the ids
NotCallable == [callable |-> FALSE, table |-> [i \in Ids |-> None]]
Predicates ==
    {[callable |-> TRUE, table |-> f] : f \in [Ids -> PredResults]}
        \cup {NotCallable}

\* callable(predicate)
callable(predicate) == predicate.callable

\* iter(ids): the items in index order
iter(ids) == ids

\* reversed(ids): the items from the last index to the first
reversed(ids) == [i \in 1..Len(ids) |-> ids[Len(ids) + 1 - i]]

SearchReturn(v, calls) ==
    [kind |-> "return", exc |-> "", value |-> v, calls |-> calls]
SearchRaise(e, calls) ==
    [kind |-> "raise", exc |-> e, value |-> NoValue, calls |-> calls]

\* for _id in it: if predicate(_id): return _id / return default_val
\* calls is the sequence of ids the predicate was invoked on so far
RECURSIVE FirstTrueLoop(_, _, _, _)
FirstTrueLoop(it, default_val, predicate, calls) ==
    IF it = <<>>
    THEN SearchReturn(default_val, calls)
    ELSE LET _id == Head(it)
             r == predicate.table[_id]
         IN  IF r = PredRaises
             THEN SearchRaise("PredicateError", Append(calls, _id))
             ELSE IF Truthy(r)
                  THEN SearchReturn(_id, Append(calls, _id))
                  ELSE FirstTrueLoop(Tail(it), default_val, predicate,
                                     Append(calls, _id))

\* the loop without its early return: the last qualifying id wins
RECURSIVE FirstTrueLoop_NoBreak(_, _, _, _)
FirstTrueLoop_NoBreak(it, found, predicate, calls) ==
    IF it = <<>>
    THEN SearchReturn(found, calls)
    ELSE LET _id == Head(it)
             r == predicate.table[_id]
         IN  IF r = PredRaises
             THEN SearchRaise("PredicateError", Append(calls, _id))
             ELSE FirstTrueLoop_NoBreak(Tail(it),
                                        IF Truthy(r) THEN _id ELSE found,
                                        predicate, Append(calls, _id))

get_first_true_NoBreak(ids, default_val, predicate, iter_provider) ==
    IF ~callable(predicate)
    THEN SearchRaise("TypeError", <<>>)
    ELSE FirstTrueLoop_NoBreak(iter_provider[ids], default_val, predicate,
                               <<>>)

\* the search without its callable check: a predicate that is not callable
\* fails only when the loop first calls it, so never on an empty sequence
get_first_true_LazyCheck(ids, default_val, predicate, iter_provider) ==
    IF iter_provider[ids] = <<>>
    THEN SearchReturn(default_val, <<>>)
    ELSE IF ~callable(predicate)
         THEN SearchRaise("TypeError", <<>>)
         ELSE FirstTrueLoop(iter_provider[ids], default_val, predicate, <<>>)

\* the search that filters every item first and then takes the first hit
get_first_true_Eager(ids, default_val, predicate, iter_provider) ==
    IF ~callable(predicate)
    THEN SearchRaise("TypeError", <<>>)
    ELSE LET order == iter_provider[ids]
             raising == {i \in 1..Len(order) :
                           predicate.table[order[i]] = PredRaises}
         IN  IF raising # {}
             THEN SearchRaise("PredicateError",
                    SubSeq(order, 1,
                           CHOOSE m \in raising : \A k \in raising : m <= k))
             ELSE SearchReturn(
                    FirstTrueLoop(order, default_val, predicate, <<>>).value,
                    order)

\* the search that forgets the caller's default and falls back on None
get_first_true_NoDefault(ids, default_val, predicate, iter_provider) ==
    IF ~callable(predicate)
    THEN SearchRaise("TypeError", <<>>)
    ELSE FirstTrueLoop(iter_provider[ids], None, predicate, <<>>)

\* iter_provider is a function value from the sequence to its items in the
\* order of the iteration
get_first_true(ids, default_val, predicate, iter_provider) ==
    IF ~callable(predicate)
    THEN SearchRaise("TypeError", <<>>)
    ELSE FirstTrueLoop(iter_provider[ids], default_val, predicate, <<>>)

\* the reverse search that forgets to reverse
get_last_true_Forward(ids, default_val, predicate) ==
    get_first_true(ids, default_val, predicate, [s \in {ids} |-> iter(s)])

get_last_true(ids, default_val, predicate) ==
    get_first_true(ids, default_val, predicate, [s \in {ids} |-> reversed(s)])

(* --------------------------- op/base.py -------------------------------- *)

\* a pathlib.Path, Path.cwd() say; a Path is always truthy
PathObj == Obj("Path", 0, 0)

\* CWDRootDirOp(root_dir): defines neither __bool__ nor __len__, so truthy
CWDRootDirOp(root_dir) == Obj("CWDRootDirOp", 0, 0)

\* RootDirOps.from_path
from_path(root_dir) == CWDRootDirOp(root_dir)

\* another implementation of the RootDirOp protocol, one that has a length
\* (a group of n operations under one root): falsy when n = 0
SizedRootDirOp(n) == Obj("SizedRootDirOp", n, 0)

\* the values of the parameter root_dir: Path | None
RootDirs == {None, PathObj}

\* the values of the parameter root_dir_op: RootDirOp | None
RootDirOpObjects ==
    {None, from_path(PathObj), SizedRootDirOp(0), SizedRootDirOp(1)}

\* RootDirOps.strictly_one_required
strictly_one_required(root_dir, root_dir_op) ==
    IF root_dir = None /\ root_dir_op = None
    THEN Raise("ValueError")
    ELSE IF Truthy(root_dir) /\ Truthy(root_dir_op)
         THEN Raise("ValueError")
         ELSE Return(None)

(* ---------------------------- inputs ----------------------------------- *)

RECURSIVE SeqsUpTo(_, _)
SeqsUpTo(S, n) ==
    IF n = 0
    THEN {<<>>}
    ELSE LET shorter == SeqsUpTo(S, n - 1)
         IN  shorter \cup {Append(s, x) : s \in shorter, x \in S}

IdSeqs == SeqsUpTo(Ids, MaxLen)

\* a default outside the ids (the -1 of the doctests) or one of them
Defaults == {IntObj(-1), IntObj(1)}

(* ---------------------------- the calls -------------------------------- *)

NoArgs == [none |-> TRUE]

Init ==
    /\ op = "idle"
    /\ args = NoArgs
    /\ out = Return(NoValue)

Call_is_missing ==
    /\ op = "idle"
    /\ \E obj \in Objects :
        /\ op' = "is_missing"
        /\ args' = [obj |-> obj]
        /\ out' = Return(is_missing(obj))

Call_is_unset ==
    /\ op = "idle"
    /\ \E obj \in Objects :
        /\ op' = "is_unset"
        /\ args' = [obj |-> obj]
        /\ out' = Return(is_unset(obj))

Call_is_ellipses ==
    /\ op = "idle"
    /\ \E obj \in Objects :
        /\ op' = "is_ellipses"
        /\ args' = [obj |-> obj]
        /\ out' = Return(is_ellipses(obj))

Call_alt_if_missing ==
    /\ op = "idle"
    /\ \E obj \in Objects, alt \in Objects :
        /\ op' = "alt_if_missing"
        /\ args' = [obj |-> obj, alt |-> alt]
        /\ out' = alt_if_missing(obj, alt)

Call_alt_if_unset ==
    /\ op = "idle"
    /\ \E obj \in Objects, alt \in Objects :
        /\ op' = "alt_if_unset"
        /\ args' = [obj |-> obj, alt |-> alt]
        /\ out' = alt_if_unset(obj, alt)

Call_alt_if_ellipses ==
    /\ op = "idle"
    /\ \E obj \in Objects, alt \in Objects :
        /\ op' = "alt_if_ellipses"
        /\ args' = [obj |-> obj, alt |-> alt]
        /\ out' = alt_if_ellipses(obj, alt)

Call_fallback_on_none ==
    /\ op = "idle"
    /\ \E value \in Objects, default_val \in Objects :
        /\ op' = "fallback_on_none"
        /\ args' = [value |-> value, default_val |-> default_val]
        /\ out' = fallback_on_none(value, default_val)

Call_fallback_on_none_strict ==
    /\ op = "idle"
    /\ \E value \in Objects, default_val \in Objects :
        /\ op' = "fallback_on_none_strict"
        /\ args' = [value |-> value, default_val |-> default_val]
        /\ out' = fallback_on_none_strict(value, default_val)

Call_get_first_true ==
    /\ op = "idle"
    /\ \E ids \in IdSeqs, default_val \in Defaults, predicate \in Predicates :
        /\ op' = "get_first_true"
        /\ args' = [ids |-> ids, default_val |-> default_val,
                    predicate |-> predicate]
        /\ out' = get_first_true(ids, default_val, predicate,
                                 [s \in {ids} |-> iter(s)])

Call_get_last_true ==
    /\ op = "idle"
    /\ \E ids \in IdSeqs, default_val \in Defaults, predicate \in Predicates :
        /\ op' = "get_last_true"
        /\ args' = [ids |-> ids, default_val |-> default_val,
                    predicate |-> predicate]
        /\ out' = get_last_true(ids, default_val, predicate)

Call_strictly_one_required ==
    /\ op = "idle"
    /\ \E root_dir \in RootDirs, root_dir_op \in RootDirOpObjects :
        /\ op' = "strictly_one_required"
        /\ args' = [root_dir |-> root_dir, root_dir_op |-> root_dir_op]
        /\ out' = strictly_one_required(root_dir, root_dir_op)

\* the caller takes the outcome; the next call starts from scratch
Done ==
    /\ op # "idle"
    /\ op' = "idle"
    /\ args' = NoArgs
    /\ out' = Return(NoValue)

Next ==
    \/ Call_is_missing
    \/ Call_is_unset
    \/ Call_is_ellipses
    \/ Call_alt_if_missing
    \/ Call_alt_if_unset
    \/ Call_alt_if_ellipses
    \/ Call_fallback_on_none
    \/ Call_fallback_on_none_strict
    \/ Call_get_first_true
    \/ Call_get_last_true
    \/ Call_strictly_one_required
    \/ Done

Spec == Init /\ [][Next]_vars

(* ---------------------------- properties ------------------------------- *)

\* predicate(x) returns normally with a truthy result
Holds(predicate, x) ==
    /\ predicate.callable
    /\ predicate.table[x] # PredRaises
    /\ Truthy(predicate.table[x])

\* the predicate is callable and raises on no item of ids
TotalOn(predicate, ids) ==
    /\ predicate.callable
    /\ \A i \in 1..Len(ids) : predicate.table[ids[i]] # PredRaises

\* the indices of ids at which the predicate holds
TrueIdx(ids, predicate) == {i \in 1..Len(ids) : Holds(predicate, ids[i])}

MinOf(S) == CHOOSE m \in S : \A k \in S : m <= k
MaxOf(S) == CHOOSE m \in S : \A k \in S : m >= k

\* C1: when the predicate holds of some item, get_first_true returns the
\* item at the smallest index at which it holds, and not the default in
\* its place.
C1_FirstTrue ==
    (/\ op = "get_first_true"
     /\ TotalOn(args.predicate, args.ids)
     /\ TrueIdx(args.ids, args.predicate) # {})
    => LET first == args.ids[MinOf(TrueIdx(args.ids, args.predicate))]
       IN  /\ out.kind = "return"
           /\ out.value = first
           /\ (args.default_val # first => out.value # args.default_val)

\* a search whose first hit is at index 2, with a second hit behind it
C1_Witness ==
    /\ op = "get_first_true"
    /\ TotalOn(args.predicate, args.ids)
    /\ Cardinality(TrueIdx(args.ids, args.predicate)) >= 2
    /\ MinOf(TrueIdx(args.ids, args.predicate)) = 2
    /\ out.value = args.ids[2]
    /\ out.value # args.default_val
    /\ args.ids[1] = args.default_val

\* C2: when the predicate holds of some item, get_last_true returns the
\* item at the largest index at which it holds, which is what
\* get_first_true returns for the reversed sequence.
C2_LastTrue ==
    (/\ op = "get_last_true"
     /\ TotalOn(args.predicate, args.ids)
     /\ TrueIdx(args.ids, args.predicate) # {})
    => /\ out.kind = "return"
       /\ out.value = args.ids[MaxOf(TrueIdx(args.ids, args.predicate))]
       /\ out.value =
            get_first_true(reversed(args.ids), args.default_val,
                           args.predicate,
                           [s \in {reversed(args.ids)} |-> iter(s)]).value

\* a reverse search with two hits on different items: the later one wins
C2_Witness ==
    /\ op = "get_last_true"
    /\ TotalOn(args.predicate, args.ids)
    /\ LET hits == TrueIdx(args.ids, args.predicate)
       IN  /\ Cardinality(hits) >= 2
           /\ args.ids[MinOf(hits)] # args.ids[MaxOf(hits)]
           /\ MaxOf(hits) < Len(args.ids)
           /\ out.value = args.ids[MaxOf(hits)]

\* C3: when the predicate is callable and holds of no item (the empty
\* sequence included), get_first_true and get_last_true return the default.
C3_DefaultWhenNone ==
    (/\ op \in {"get_first_true", "get_last_true"}
     /\ TotalOn(args.predicate, args.ids)
     /\ TrueIdx(args.ids, args.predicate) = {})
    => /\ out.kind = "return"
       /\ out.value = args.default_val

\* a search over two or more items, none qualifying, that gave a default
\* which is none of the items
C3_Witness ==
    /\ op \in {"get_first_true", "get_last_true"}
    /\ TotalOn(args.predicate, args.ids)
    /\ Len(args.ids) >= 2
    /\ TrueIdx(args.ids, args.predicate) = {}
    /\ \A i \in 1..Len(args.ids) : args.ids[i] # args.default_val
    /\ out = SearchReturn(args.default_val, out.calls)

\* the empty sequence gives the default
C3_WitnessEmpty ==
    /\ op = "get_last_true"
    /\ args.ids = <<>>
    /\ args.predicate.callable
    /\ out.value = args.default_val

AltOps == {"alt_if_missing", "alt_if_unset", "alt_if_ellipses"}
IsOps == {"is_missing", "is_unset", "is_ellipses"}

\* the sentinel a function tests for
OwnSentinel(o) ==
    CASE o \in {"is_missing", "alt_if_missing"} -> MISSING
      [] o \in {"is_unset", "alt_if_unset"} -> UNSET
      [] o \in {"is_ellipses", "alt_if_ellipses"} -> Ellipsis

C4_WitnessUnset ==
    /\ op = "alt_if_unset"
    /\ args.obj = UNSET
    /\ args.alt = IntObj(0)
    /\ out = Return(IntObj(0))

C5_WitnessZero ==
    /\ op = "alt_if_missing"
    /\ args.obj = IntObj(0)
    /\ args.alt = IntObj(2)
    /\ out = Return(IntObj(0))

\* C6: when obj is not the function's own sentinel and its exact type is
\* not the exact type of alt, the three functions raise a TypeError and
\* return nothing; a bool against an int is such a mismatch.
C6_TypeMismatchRaises ==
    (/\ op \in AltOps
     /\ args.obj # OwnSentinel(op)
     /\ TypeOf(args.obj) # TypeOf(args.alt))
    => out = Raise("TypeError")

\* True against the integer 2 raised
C6_Witness ==
    /\ op \in AltOps
    /\ args.obj = BoolObj(TRUE)
    /\ args.alt = IntObj(2)
    /\ out.kind = "raise"
    /\ out.exc = "TypeError"
    /\ out.value = NoValue

\* an integer against a bool raised as well
C6_WitnessReverse ==
    /\ op = "alt_if_ellipses"
    /\ args.obj = IntObj(0)
    /\ args.alt = BoolObj(FALSE)
    /\ out = Raise("TypeError")

\* the supplied objects that are falsy and no sentinel
FalsyObjects ==
    {None, IntObj(0), BoolObj(FALSE), StrObj(0), EmptyTuple}
        \cup {EmptyList(o) : o \in 1..NumLists}

\* C7: is_missing, is_unset and is_ellipses return True exactly when the
\* argument is identical to their sentinel and False otherwise; is_missing
\* is False for None, 0, False, the empty string and the empty containers.
C7_IdentityOnly ==
    (op \in IsOps)
    => /\ out.kind = "return"
       /\ out.value \in {BoolObj(TRUE), BoolObj(FALSE)}
       /\ (out.value = BoolObj(TRUE) <=> args.obj = OwnSentinel(op))
       /\ (op = "is_missing" /\ args.obj \in FalsyObjects
             => out.value = BoolObj(FALSE))

\* is_missing(None) gave False
C7_Witness ==
    /\ op = "is_missing"
    /\ args.obj = None
    /\ out = Return(BoolObj(FALSE))

\* is_ellipses(...) gave True
C7_WitnessTrue ==
    /\ op = "is_ellipses"
    /\ args.obj = Ellipsis
    /\ out = Return(BoolObj(TRUE))

\* C8: MISSING and UNSET are distinct sentinels: is_unset(MISSING) and
\* is_missing(UNSET) are False, and neither alt_if_unset(MISSING, alt) nor
\* alt_if_missing(UNSET, alt) substitutes alt because of the sentinel check
\* (with an alt of another type they raise the TypeError instead).
C8_SentinelsDistinct ==
    /\ (op = "is_unset" /\ args.obj = MISSING
          => out = Return(BoolObj(FALSE)))
    /\ (op = "is_missing" /\ args.obj = UNSET
          => out = Return(BoolObj(FALSE)))
    /\ (/\ op = "alt_if_unset"
        /\ args.obj = MISSING
        /\ TypeOf(args.alt) # TypeOf(MISSING)
        => out = Raise("TypeError"))
    /\ (/\ op = "alt_if_missing"
        /\ args.obj = UNSET
        /\ TypeOf(args.alt) # TypeOf(UNSET)
        => out = Raise("TypeError"))

\* C9: fallback_on_none never raises; it returns the default when the value
\* is None (a None default included) and the value itself otherwise,
\* whatever its truthiness and whatever the type of the default.
C9_FallbackOnNone ==
    (op = "fallback_on_none")
    => /\ out.kind = "return"
       /\ (args.value = None => out.value = args.default_val)
       /\ (args.value # None => out.value = args.value)

\* the falsy 0 kept against a default of another type
C9_Witness ==
    /\ op = "fallback_on_none"
    /\ args.value = IntObj(0)
    /\ ~Truthy(args.value)
    /\ args.default_val = StrObj(1)
    /\ out = Return(IntObj(0))

\* None resolved to a None default
C9_WitnessNone ==
    /\ op = "fallback_on_none"
    /\ args.value = None
    /\ args.default_val = None
    /\ out = Return(None)

\* C10: fallback_on_none_strict fails its assertion for every value when the
\* default is None, and with another default it gives what
\* fallback_on_none gives.
C10_StrictFallback ==
    (op = "fallback_on_none_strict")
    => /\ (args.default_val = None => out = Raise("AssertionError"))
       /\ (args.default_val # None
             => /\ out = fallback_on_none(args.value, args.default_val)
                /\ out.kind = "return"
                /\ out.value =
                     (IF args.value = None THEN args.default_val
                      ELSE args.value))

\* a value that would have been returned, refused for the None default
C10_Witness ==
    /\ op = "fallback_on_none_strict"
    /\ args.value = StrObj(1)
    /\ args.default_val = None
    /\ out = Raise("AssertionError")

\* with a default that is not None the strict fallback resolves None
C10_WitnessReturn ==
    /\ op = "fallback_on_none_strict"
    /\ args.value = None
    /\ args.default_val = StrObj(1)
    /\ out = Return(StrObj(1))

\* C11: strictly_one_required raises a ValueError when both arguments are
\* supplied (neither is None) and when neither is, and returns without
\* error exactly when one is supplied and the other is None, whatever the
\* truthiness of the supplied value.
C11_StrictlyOne ==
    (op = "strictly_one_required")
    => LET both == args.root_dir # None /\ args.root_dir_op # None
           neither == args.root_dir = None /\ args.root_dir_op = None
       IN  /\ (both \/ neither => out = Raise("ValueError"))
           /\ (~both /\ ~neither => out = Return(None))

SearchOps == {"get_first_true", "get_last_true"}

\* the items of the call's sequence in the order the call visits them
Order == IF op = "get_last_true" THEN reversed(args.ids) ELSE args.ids

\* the positions of the visiting order at which the predicate raises with
\* nothing but falsy results before it
RaisesAt(order, predicate) ==
    {k \in 1..Len(order) :
        /\ predicate.table[order[k]] = PredRaises
        /\ \A j \in 1..(k - 1) :
              /\ predicate.table[order[j]] # PredRaises
              /\ ~Truthy(predicate.table[order[j]])}

\* C12: get_first_true and get_last_true raise a TypeError for a predicate
\* that is not callable, for every sequence (the empty one too) and before
\* any item is examined; an error raised by a call of the predicate reaches
\* the caller as it is and no value is returned.
C12_PredicateErrors ==
    (op \in SearchOps)
    => /\ (~args.predicate.callable => out = SearchRaise("TypeError", <<>>))
       /\ (args.predicate.callable /\ RaisesAt(Order, args.predicate) # {}
             => /\ out.kind = "raise"
                /\ out.exc = "PredicateError"
                /\ out.value = NoValue)
       /\ (out.exc = "TypeError" => ~args.predicate.callable)

\* a predicate that is not callable refused on the empty sequence
C12_Witness ==
    /\ op \in SearchOps
    /\ args.ids = <<>>
    /\ ~args.predicate.callable
    /\ out.kind = "raise"
    /\ out.exc = "TypeError"
    /\ out.calls = <<>>

\* the predicate raised on the second item visited, after a falsy first
C12_WitnessPropagates ==
    /\ op = "get_last_true"
    /\ args.predicate.callable
    /\ RaisesAt(Order, args.predicate) = {2}
    /\ out.kind = "raise"
    /\ out.exc = "PredicateError"
    /\ out.value = NoValue

\* C13: whenever alt_if_missing, alt_if_unset or alt_if_ellipses returns,
\* the exact type of the result is the exact type of alt; a sentinel is
\* returned only when alt has that sentinel's type.
C13_ResultHasTypeOfAlt ==
    (op \in AltOps /\ out.kind = "return")
    => /\ TypeOf(out.value) = TypeOf(args.alt)
       /\ (out.value \in {MISSING, UNSET, Ellipsis}
             => TypeOf(args.alt) = TypeOf(out.value))

\* obj kept, another object than alt and of alt's type
C13_Witness ==
    /\ op \in AltOps
    /\ out.kind = "return"
    /\ out.value = args.obj
    /\ args.obj # args.alt
    /\ TypeOf(out.value) = TypeOf(args.alt)

\* alt substituted for a sentinel of another type
C13_WitnessSubstituted ==
    /\ op = "alt_if_missing"
    /\ args.obj = MISSING
    /\ args.alt = StrObj(0)
    /\ out.kind = "return"
    /\ TypeOf(out.value) = "str"

\* C14: the predicate is invoked on the items one at a time in the order of
\* the iteration (reverse order for get_last_true), at most once per item
\* and on no item behind the first one with a truthy result; when no item
\* qualifies it is invoked exactly once on every item.
C14_CallsInOrderUntilFirstHit ==
    (op \in SearchOps)
    => /\ Len(out.calls) <= Len(Order)
       /\ out.calls = SubSeq(Order, 1, Len(out.calls))
       /\ \A k \in 1..(Len(out.calls) - 1) :
             /\ args.predicate.table[out.calls[k]] # PredRaises
             /\ ~Truthy(args.predicate.table[out.calls[k]])
       /\ (TotalOn(args.predicate, args.ids)
             /\ TrueIdx(args.ids, args.predicate) = {}
             => out.calls = Order)
       /\ (TotalOn(args.predicate, args.ids)
             /\ TrueIdx(args.ids, args.predicate) # {}
             => /\ out.calls # <<>>
                /\ Holds(args.predicate, out.calls[Len(out.calls)]))

\* a forward search that stopped at its second item and left the third
\* uncalled
C14_Witness ==
    /\ op = "get_first_true"
    /\ Len(args.ids) = 3
    /\ TotalOn(args.predicate, args.ids)
    /\ Holds(args.predicate, args.ids[2])
    /\ out.kind = "return"
    /\ out.calls = <<args.ids[1], args.ids[2]>>

\* a reverse search without a hit that called every item, last to first
C14_WitnessReverseAll ==
    /\ op = "get_last_true"
    /\ Len(args.ids) >= 2
    /\ args.ids[1] # args.ids[Len(args.ids)]
    /\ TotalOn(args.predicate, args.ids)
    /\ TrueIdx(args.ids, args.predicate) = {}
    /\ out.calls = reversed(args.ids)

====
